---- MODULE Spec2Model ----
(***************************************************************************)
(* Cache-first retrieval of a profile record: the memory store is asked    *)
(* first, the scraping provider is the fallback (job submission over four  *)
(* payload variants, then a bounded status poll), and the scraped record   *)
(* is written back behind a duplicate check.                               *)
(*                                                                         *)
(* One orchestration call (smart_linkedin_scraper) is a record of its      *)
(* local variables and its position; every step of it is an operator from  *)
(* the call and the answer of the external service to the next call, and   *)
(* the actions apply these operators.  The provider and the memory store   *)
(* are external: their answers are chosen nondeterministically.            *)
(***************************************************************************)
EXTENDS Integers, Sequences, FiniteSets, TLC

VARIABLES call, twin, store

vars == <<call, twin, store>>

(***************************************************************************)
(* Bounds of the model.                                                    *)
(***************************************************************************)
\* lines of an HTTP response body
MaxBodyLines == 2
\* records the wider search returns (the code asks for at most 5)
MaxWide == 2
\* activity events of a scraped profile (the code keeps the first 10)
MaxActivities == 11
\* characters of a profile URL after its first segment
MaxUrlLen == 4

(***************************************************************************)
(* Program constants.                                                      *)
(***************************************************************************)
\* max_attempts = 15
max_attempts == 15

\* time.sleep(10) after an in-progress answer
poll_delay == 10

\* scraped_data['activity'][:10]
activity_cap == 10

\* activity.get('title', 'No title')[:100]
title_limit == 100

\* max_results=5 of the search before storing
wider_max_results == 5

\* len(payloads_to_try)
NumPayloads == 4

(***************************************************************************)
(* Strings are sequences of characters.  A profile URL and the username    *)
(* derived from it.                                                        *)
(***************************************************************************)
RECURSIVE RStripSlash(_)
RStripSlash(s) ==
    IF s # <<>> /\ s[Len(s)] = "/"
    THEN RStripSlash(SubSeq(s, 1, Len(s) - 1))
    ELSE s

\* s.split('/')[-1]: what follows the last slash
RECURSIVE LastSegment(_)
LastSegment(s) ==
    IF s = <<>> \/ s[Len(s)] = "/"
    THEN <<>>
    ELSE Append(LastSegment(SubSeq(s, 1, Len(s) - 1)), s[Len(s)])

\* username = profile_url.rstrip('/').split('/')[-1]
Username(profile_url) == LastSegment(RStripSlash(profile_url))

ProfileUrls == { <<"l", "/", "a">>, <<"l", "/", "a", "/">> }

(***************************************************************************)
(* JSON values.  Only what the code looks at is kept: whether the value is *)
(* an object, and of an object the keys status, snapshot_id, linkedin_id,  *)
(* id, activity and timestamp.  NoVal is a key that is absent or holds a   *)
(* falsy value (for activity: absent or the empty list); JSON null decodes *)
(* to Python's None, so Null is also the None the code returns.  Arr       *)
(* stands for every value that is neither an object nor null (an array, a  *)
(* string, a number): none of them has .get.                               *)
(***************************************************************************)
NoVal == <<>>

JObj(st, sid, lid, id) ==
    [kind |-> "object", status |-> st, snapshot_id |-> sid,
     linkedin_id |-> lid, id |-> id, activity |-> NoVal,
     timestamp |-> NoVal]

Null == [kind |-> "null", status |-> "absent", snapshot_id |-> NoVal,
         linkedin_id |-> NoVal, id |-> NoVal, activity |-> NoVal,
         timestamp |-> NoVal]

Arr == [kind |-> "array", status |-> "absent", snapshot_id |-> NoVal,
        linkedin_id |-> NoVal, id |-> NoVal, activity |-> NoVal,
        timestamp |-> NoVal]

(***************************************************************************)
(* The activity list of a profile.  A title is a string given by its       *)
(* content and its length: Str(c, n), the pair <<c, n>>, is the first n    *)
(* characters of the text c, so that slicing keeps the content and cuts    *)
(* the length.  An event is an object whose keys interaction and title may *)
(* be absent.                                                              *)
(***************************************************************************)
Str(chars, len) == <<chars, len>>
StrLen(s) == s[2]

\* s[:n]
Slice(s, n) == Str(s[1], IF StrLen(s) < n THEN StrLen(s) ELSE n)

\* the k-th event of a profile: titles of 99, 100, 101, ... characters,
\* every fourth event without title, every third without interaction
ActivityEvent(k) ==
    [interaction |-> IF k % 3 = 0 THEN NoVal ELSE <<"liked">>,
     title |-> IF k % 4 = 0 THEN NoVal ELSE Str(<<"title", k>>, 98 + k)]

Activity(n) == [k \in 1..n |-> ActivityEvent(k)]

\* the numbers of events tried: none, one, the cap, and more than the cap
ActivityCounts == {0, 1, activity_cap, MaxActivities}

WithActivity(v, n) == [v EXCEPT !.activity = Activity(n)]

\* the value with a timestamp key, as the provider's records have
Stamped(v) == [v EXCEPT !.timestamp = <<"t">>]

(***************************************************************************)
(* A text is a sequence of lines; a line is blank, a complete JSON value,  *)
(* or something that is not JSON.                                          *)
(***************************************************************************)
BlankLine == [t |-> "blank", v |-> Null]
GarbageLine == [t |-> "garbage", v |-> Null]
JsonLine(v) == [t |-> "json", v |-> v]

\* str.strip(): leading and trailing whitespace, blank lines included
RECURSIVE Strip(_)
Strip(text) ==
    IF text = <<>> THEN <<>>
    ELSE IF text[1].t = "blank" THEN Strip(Tail(text))
    ELSE IF text[Len(text)].t = "blank" THEN Strip(SubSeq(text, 1, Len(text) - 1))
    ELSE text

\* json.loads(text) / response.json(): one JSON value, whitespace around it
\* allowed; anything else raises JSONDecodeError (ok = FALSE)
JsonLoads(text) ==
    LET s == Strip(text) IN
    IF Len(s) = 1 /\ s[1].t = "json"
    THEN [ok |-> TRUE, v |-> s[1].v]
    ELSE [ok |-> FALSE, v |-> Null]

\* the text made of one JSON value
OneLine(v) == << JsonLine(v) >>

\* a serialization that loses the activity list
JsonDumpsWithoutActivity(v) == OneLine([v EXCEPT !.activity = NoVal])

\* json.dumps(value): the value on one line
JsonDumps(v) == OneLine(v)

\* lines[0] of text.strip().split('\n'): empty when the text is blank
FirstLine(text) == IF Strip(text) = <<>> THEN BlankLine ELSE Strip(text)[1]

\* texts of at most n lines over the given lines
TextsOver(lines, n) == UNION { [1..k -> lines] : k \in 0..n }

(***************************************************************************)
(* Answers of the external services.                                       *)
(***************************************************************************)
\* an HTTP exchange: the call raised, or a status code and a body
Raised == [raised |-> TRUE, code |-> 0, body |-> <<>>]
Http(code, body) == [raised |-> FALSE, code |-> code, body |-> body]

\* what the code can tell of an answer: whether the call raised, the status
\* code, what response.json() gives and the first line of the stripped text
Seen(resp) ==
    [raised |-> resp.raised, code |-> resp.code,
     json |-> JsonLoads(resp.body), first |-> FirstLine(resp.body)]

NoResponse == Seen(Http(0, <<>>))

JobStarted == JObj("absent", <<"s">>, NoVal, NoVal)
EmptyObject == JObj("absent", NoVal, NoVal, NoVal)

\* bodies of the answer to a job submission
PostBodies ==
    { <<>>, <<GarbageLine>>, OneLine(Null), OneLine(Arr),
      OneLine(EmptyObject), OneLine(JobStarted) }

PostResponses == {Raised} \cup { Http(code, b) : code \in {200, 500}, b \in PostBodies }

StatusRunning == JObj("running", NoVal, NoVal, NoVal)
StatusOther == JObj("failed", NoVal, NoVal, NoVal)
ProfileA == JObj("absent", NoVal, <<"a">>, NoVal)

\* values a status poll may carry
PollValues == { Null, Arr, StatusRunning, StatusOther, ProfileA }

PollLines == { BlankLine, GarbageLine } \cup { JsonLine(v) : v \in PollValues }

PollResponses ==
    {Raised} \cup { Http(code, b) : code \in {200, 202, 500},
                                   b \in TextsOver(PollLines, MaxBodyLines) }

\* a search of the memory store: it raised, or search_results['memories'],
\* each memory given by its text
StoreRaised == [raised |-> TRUE, memories |-> <<>>]
Found(memories) == [raised |-> FALSE, memories |-> memories]

\* texts of the record the narrow search may return (max_results=1)
NarrowTexts ==
    { <<GarbageLine>>, OneLine(Null), OneLine(Arr),
      OneLine(ProfileA), OneLine(StatusRunning) }

NarrowResponses == {StoreRaised, Found(<<>>)} \cup { Found(<<t>>) : t \in NarrowTexts }

\* texts of the records the wider search may return
WideTexts ==
    { <<GarbageLine>>, OneLine(Arr),
      OneLine(JObj("absent", NoVal, <<"a">>, NoVal)),
      OneLine(JObj("absent", NoVal, <<"b">>, <<"a">>)),
      OneLine(JObj("absent", NoVal, NoVal, <<"a">>)) }

WideResponses == {StoreRaised} \cup { Found(m) : m \in TextsOver(WideTexts, MaxWide) }

(***************************************************************************)
(* The orchestration call.                                                 *)
(*   pc: idle (no call), start, narrow, submit, poll, sleep, wider, write, *)
(*       close, done                                                       *)
(*   session: the memory-store client (none, open, closed)                  *)
(*   nSearch, nPost, nGet, nWrite, nClose: the external calls issued       *)
(*   posts: the job submissions made, each with the payload variant        *)
(*       (1..4) and whether it was refused (rejected or errored)           *)
(*   poller: the Job Poller's state (idle before a job exists)             *)
(*   response: what the code sees of the answer to the latest status poll  *)
(*   inProgressOnly: every status poll so far was answered in-progress     *)
(*   statusOnly: every status poll so far was answered HTTP 200 with an    *)
(*     object that has a status key                                        *)
(*   waited: the time slept since the latest status poll                   *)
(*   solo: no other call was in flight when this one opened its session    *)
(*   store_failed: the memory-store call that raised (none, narrow, wider, *)
(*       write)                                                            *)
(*   i, snapshot_id, attempt and response belong to the frame of           *)
(*   _scrape_new_profile: they are kept in the state in which it returns   *)
(*   and dropped by the step after                                         *)
(*   outcome: pending, returned (with v) or raised (with err)              *)
(*   reply: the LinkedInResponse of the route /scrape that made the call   *)
(* The other fields are the local variables of the source.                 *)
(***************************************************************************)
Pending == [kind |-> "pending", v |-> Null, err |-> "none"]

\* LinkedInResponse; sent is false while the route has not returned
LinkedInResponse(success, profile_data, formatted_output, error, cached) ==
    [sent |-> TRUE, success |-> success, profile_data |-> profile_data,
     formatted_output |-> formatted_output, error |-> error,
     cached |-> cached]

NoReply ==
    [sent |-> FALSE, success |-> FALSE, profile_data |-> Null,
     formatted_output |-> <<>>, error |-> NoVal, cached |-> FALSE]

NewCall(pc, profile_url) ==
    [pc |-> pc, profile_url |-> profile_url, username |-> <<>>,
     session |-> "none", nSearch |-> 0, nPost |-> 0, nGet |-> 0,
     nWrite |-> 0, nClose |-> 0,
     search_results |-> <<>>, i |-> 0, posts |-> <<>>, snapshot_id |-> NoVal,
     attempt |-> 0, poller |-> "idle", response |-> NoResponse,
     inProgressOnly |-> TRUE, statusOnly |-> TRUE, waited |-> 0,
     solo |-> TRUE,
     store_failed |-> "none",
     scraped_data |-> Null, existing_check |-> <<>>,
     profile_already_exists |-> FALSE, memories_to_store |-> <<>>,
     written |-> <<>>, outcome |-> Pending, reply |-> NoReply]

\* the frame of _scrape_new_profile is gone
DropFrame(c) ==
    [c EXCEPT !.i = 0, !.snapshot_id = NoVal, !.attempt = 0,
              !.response = NoResponse, !.waited = 0]

\* an exception that leaves the function at once, as if the try block had no
\* finally clause
RaiseSkipsFinally(c, err) ==
    [c EXCEPT !.pc = "done",
              !.outcome = [kind |-> "raised", v |-> Null, err |-> err]]

\* an exception leaves the try block: the finally clause is next
Raise(c, err) ==
    [c EXCEPT !.pc = "close",
              !.outcome = [kind |-> "raised", v |-> Null, err |-> err]]

\* a return statement inside the try block: the finally clause is next
Return(c, v) ==
    [c EXCEPT !.pc = "close",
              !.outcome = [kind |-> "returned", v |-> v, err |-> "none"]]

\* create_memory_client, before the try block
OpenSession(c, raised) ==
    IF raised
    THEN [c EXCEPT !.pc = "done",
                   !.username = Username(c.profile_url),
                   !.outcome = [kind |-> "raised", v |-> Null, err |-> "store"]]
    ELSE [c EXCEPT !.pc = "narrow", !.session = "open",
                   !.username = Username(c.profile_url)]

\* CacheLookup with the cached record ignored: the call always scrapes
CacheLookupAlwaysMiss(memories) == [hit |-> FALSE, cached_data |-> Null]

\* CacheLookup returning from the except clause: a text that does not
\* deserialize ends the call with None
CacheLookupCorruptReturns(memories) ==
    IF memories # <<>>
    THEN LET d == JsonLoads(memories[1]) IN
         IF d.ok THEN [hit |-> TRUE, cached_data |-> d.v]
         ELSE [hit |-> TRUE, cached_data |-> Null]
    ELSE [hit |-> FALSE, cached_data |-> Null]

\* Step 1 of smart_linkedin_scraper: what the narrow search's answer leads to
CacheLookup(memories) ==
    IF memories # <<>>
    THEN LET d == JsonLoads(memories[1]) IN
         IF d.ok THEN [hit |-> TRUE, cached_data |-> d.v]
         ELSE [hit |-> FALSE, cached_data |-> Null]
    ELSE [hit |-> FALSE, cached_data |-> Null]

NarrowSearch(c, r) ==
    LET c1 == [c EXCEPT !.nSearch = @ + 1, !.search_results = r.memories]
        l == CacheLookup(r.memories)
    IN  IF r.raised
        THEN Raise([c EXCEPT !.nSearch = @ + 1, !.store_failed = "narrow"],
                   "store")
        ELSE IF l.hit THEN Return(c1, l.cached_data)
        ELSE [c1 EXCEPT !.pc = "submit", !.i = 0]

\* ScrapeReturns without the test for None
ScrapeReturnsUnchecked(c, v) == [c EXCEPT !.pc = "wider", !.scraped_data = v]

\* scraped_data = _scrape_new_profile(profile_url), and the test that follows
ScrapeReturns(c, v) ==
    IF v = Null
    THEN Raise(c, "scrape_failed")
    ELSE [c EXCEPT !.pc = "wider", !.scraped_data = v]

(***************************************************************************)
(* _scrape_new_profile, step 1: the Scrape Initiator.                      *)
(***************************************************************************)
\* TriggerResult without the break
TriggerResultNoBreak(resp, snapshot_id) ==
    IF resp.raised THEN [brk |-> FALSE, snapshot_id |-> snapshot_id]
    ELSE IF resp.code = 200
    THEN LET d == JsonLoads(resp.body) IN
         IF d.ok /\ d.v.kind = "object"
         THEN [brk |-> FALSE, snapshot_id |-> d.v.snapshot_id]
         ELSE [brk |-> FALSE, snapshot_id |-> snapshot_id]
    ELSE [brk |-> FALSE, snapshot_id |-> snapshot_id]

\* one pass of the loop over payloads_to_try: whether it breaks, and
\* snapshot_id after it
TriggerResult(resp, snapshot_id) ==
    IF resp.raised THEN [brk |-> FALSE, snapshot_id |-> snapshot_id]
    ELSE IF resp.code = 200
    THEN LET d == JsonLoads(resp.body) IN
         IF d.ok /\ d.v.kind = "object"
         THEN [brk |-> TRUE, snapshot_id |-> d.v.snapshot_id]
         ELSE [brk |-> FALSE, snapshot_id |-> snapshot_id]
    ELSE [brk |-> FALSE, snapshot_id |-> snapshot_id]

\* a submission that was rejected (a status other than 200) or errored (the
\* call or the reading of its answer raised)
Refused(resp) ==
    \/ resp.raised
    \/ resp.code # 200
    \/ ~JsonLoads(resp.body).ok
    \/ JsonLoads(resp.body).v.kind # "object"

\* Submit without the test of lines 85-87: the Poller starts even when no
\* job was accepted
SubmitPollsWithoutJob(c, resp) ==
    LET r == TriggerResult(resp, c.snapshot_id)
        c1 == [c EXCEPT !.nPost = @ + 1,
                        !.posts = Append(@, [variant |-> c.i + 1,
                                             refused |-> Refused(resp)]),
                        !.snapshot_id = r.snapshot_id]
    IN  IF r.brk \/ c.i + 1 = NumPayloads
        THEN [c1 EXCEPT !.pc = "poll", !.attempt = 0, !.poller = "pending"]
        ELSE [c1 EXCEPT !.i = @ + 1]

Submit(c, resp) ==
    LET r == TriggerResult(resp, c.snapshot_id)
        c1 == [c EXCEPT !.nPost = @ + 1,
                        !.posts = Append(@, [variant |-> c.i + 1,
                                             refused |-> Refused(resp)]),
                        !.snapshot_id = r.snapshot_id]
    IN  IF r.brk \/ c.i + 1 = NumPayloads
        THEN IF r.snapshot_id = NoVal
             THEN ScrapeReturns(c1, Null)
             ELSE [c1 EXCEPT !.pc = "poll", !.attempt = 0, !.poller = "pending"]
        ELSE [c1 EXCEPT !.i = @ + 1]

(***************************************************************************)
(* _scrape_new_profile, step 2: the Job Poller.                            *)
(***************************************************************************)
PollSleep == [act |-> "sleep", state |-> "running", v |-> Null]
PollNext == [act |-> "next", state |-> "running", v |-> Null]
PollReturn(state, v) == [act |-> "return", state |-> state, v |-> v]

\* PollOutcome taking every status other than 200 for still running
PollOutcomeLenient(resp) ==
    IF resp.raised THEN PollReturn("failed", Null)
    ELSE IF resp.code = 200
    THEN LET d == JsonLoads(resp.body)
             lines == Strip(resp.body)
         IN  IF d.ok
             THEN IF d.v.kind = "object" /\ d.v.status = "running" THEN PollSleep
                  ELSE IF d.v.kind = "object" /\ d.v.status # "absent" THEN PollSleep
                  ELSE PollReturn("succeeded", d.v)
             ELSE IF lines # <<>>
                  THEN IF lines[1].t = "json"
                       THEN PollReturn("succeeded", lines[1].v)
                       ELSE PollReturn("failed", Null)
                  ELSE PollNext
    ELSE PollSleep

\* a Poller that gives up on a status other than running
PollOutcomeStatusEnds(resp) ==
    IF resp.raised THEN PollReturn("failed", Null)
    ELSE IF resp.code = 200
    THEN LET d == JsonLoads(resp.body)
             lines == Strip(resp.body)
         IN  IF d.ok
             THEN IF d.v.kind = "object" /\ d.v.status = "running" THEN PollSleep
                  ELSE IF d.v.kind = "object" /\ d.v.status # "absent"
                       THEN PollReturn("failed", Null)
                  ELSE PollReturn("succeeded", d.v)
             ELSE IF lines # <<>>
                  THEN IF lines[1].t = "json"
                       THEN PollReturn("succeeded", lines[1].v)
                       ELSE PollReturn("failed", Null)
                  ELSE PollNext
    ELSE IF resp.code = 202
    THEN LET d == JsonLoads(resp.body) IN
         IF d.ok /\ d.v.kind # "object"
         THEN PollReturn("failed", Null)
         ELSE PollSleep
    ELSE PollReturn("failed", Null)

\* one pass of the loop over range(max_attempts): sleep and continue, fall
\* to the next pass, or return
PollOutcome(resp) ==
    IF resp.raised THEN PollReturn("failed", Null)
    ELSE IF resp.code = 200
    THEN LET d == JsonLoads(resp.body)
             lines == Strip(resp.body)
         IN  IF d.ok
             THEN IF d.v.kind = "object" /\ d.v.status = "running" THEN PollSleep
                  ELSE IF d.v.kind = "object" /\ d.v.status # "absent" THEN PollSleep
                  ELSE PollReturn("succeeded", d.v)
             ELSE IF lines # <<>>
                  THEN IF lines[1].t = "json"
                       THEN PollReturn("succeeded", lines[1].v)
                       ELSE PollReturn("failed", Null)
                  ELSE PollNext
    ELSE IF resp.code = 202
    THEN LET d == JsonLoads(resp.body) IN
         IF d.ok /\ d.v.kind # "object"
         THEN PollReturn("failed", Null)
         ELSE PollSleep
    ELSE PollReturn("failed", Null)

\* the budget of the polling loop, one pass too long
NextAttemptOneMore(c) ==
    IF c.attempt + 1 < max_attempts + 1
    THEN [c EXCEPT !.pc = "poll", !.attempt = @ + 1]
    ELSE ScrapeReturns([c EXCEPT !.poller = "timed_out"], Null)

\* the next pass of the loop, or its end
NextAttempt(c) ==
    IF c.attempt + 1 < max_attempts
    THEN [c EXCEPT !.pc = "poll", !.attempt = @ + 1]
    ELSE ScrapeReturns([c EXCEPT !.poller = "timed_out"], Null)

\* an in-progress answer: HTTP 200 with a status-running body, or HTTP 202
InProgress(resp) ==
    /\ ~resp.raised
    /\ \/ resp.code = 202
       \/ /\ resp.code = 200
          /\ JsonLoads(resp.body).ok
          /\ JsonLoads(resp.body).v.kind = "object"
          /\ JsonLoads(resp.body).v.status = "running"

\* an answer that reports a status: HTTP 200 with an object that has a
\* status key, whatever its value
ReportsStatus(resp) ==
    /\ ~resp.raised
    /\ resp.code = 200
    /\ JsonLoads(resp.body).ok
    /\ JsonLoads(resp.body).v.kind = "object"
    /\ JsonLoads(resp.body).v.status # "absent"

Poll(c, resp) ==
    LET o == PollOutcome(resp)
        c1 == [c EXCEPT !.nGet = @ + 1, !.response = Seen(resp),
                        !.inProgressOnly = @ /\ InProgress(resp),
                        !.statusOnly = @ /\ ReportsStatus(resp),
                        !.waited = 0]
    IN  IF o.act = "return" THEN ScrapeReturns([c1 EXCEPT !.poller = o.state], o.v)
        ELSE IF o.act = "sleep" THEN [c1 EXCEPT !.pc = "sleep", !.poller = "running"]
        ELSE NextAttempt(c1)

\* time.sleep(10); continue (response is not read again before the next
\* pass assigns it)
Sleep(c) ==
    NextAttempt([c EXCEPT !.response = NoResponse,
                          !.waited = @ + poll_delay])

(***************************************************************************)
(* smart_linkedin_scraper, step 3: the duplicate check and the write.      *)
(***************************************************************************)
\* existing_data.get('linkedin_id') or existing_data.get('id')
ExistingUsername(existing_data) ==
    IF existing_data.linkedin_id # NoVal
    THEN existing_data.linkedin_id
    ELSE existing_data.id

\* the loop over existing_check['memories']: "yes" (a memory carries the
\* username), "no", or "raise" (a decoded text that is no object has no .get)
RECURSIVE ProfileAlreadyExists(_, _)
ProfileAlreadyExists(memories, username) ==
    IF memories = <<>> THEN "no"
    ELSE LET d == JsonLoads(Head(memories)) IN
         IF ~d.ok THEN ProfileAlreadyExists(Tail(memories), username)
         ELSE IF d.v.kind # "object" THEN "raise"
         ELSE IF ExistingUsername(d.v) = username THEN "yes"
         ELSE ProfileAlreadyExists(Tail(memories), username)

\* the text of an activity record:
\* f"{username} activity: {interaction} - {title[:100]}", which is no JSON
ActivityLine(username, activity) ==
    [t |-> "text",
     v |-> [username |-> username,
            interaction |-> IF activity.interaction = NoVal
                            THEN <<"Unknown">> ELSE activity.interaction,
            title |-> Slice(IF activity.title = NoVal
                            THEN Str(<<"No title", 0>>, 8) ELSE activity.title,
                            title_limit)]]

ProfileRecord(scraped_data, username) ==
    [memory_type |-> "semantic", text |-> JsonDumps(scraped_data),
     username |-> username]

ActivityRecord(username, activity) ==
    [memory_type |-> "episodic", text |-> << ActivityLine(username, activity) >>,
     username |-> username]

\* scraped_data['activity'][:10]
FirstActivities(activity) ==
    SubSeq(activity, 1, IF Len(activity) < activity_cap
                        THEN Len(activity) ELSE activity_cap)

\* BuildMemories without the [:10] of line 225
BuildMemoriesUncapped(scraped_data, username) ==
    IF scraped_data.kind # "object"
    THEN [raised |-> TRUE, records |-> <<>>]
    ELSE [raised |-> FALSE,
          records |-> << ProfileRecord(scraped_data, username) >>
                      \o [k \in 1..Len(scraped_data.activity) |->
                            ActivityRecord(username, scraped_data.activity[k])]]

\* memories_to_store: the semantic record of the profile, then one episodic
\* record for each of the first 10 activities; building it raises when
\* scraped_data is no object (scraped_data.get)
BuildMemories(scraped_data, username) ==
    IF scraped_data.kind # "object"
    THEN [raised |-> TRUE, records |-> <<>>]
    ELSE [raised |-> FALSE,
          records |-> << ProfileRecord(scraped_data, username) >>
                      \o [k \in 1..Len(FirstActivities(scraped_data.activity)) |->
                            ActivityRecord(username, scraped_data.activity[k])]]

\* WiderSearch without the duplicate check: every scraped profile is stored
WiderSearchWithoutCheck(c, r) ==
    LET c0 == DropFrame([c EXCEPT !.nSearch = @ + 1])
        c1 == [c0 EXCEPT !.existing_check = r.memories]
        b == BuildMemories(c.scraped_data, c.username)
    IN  IF r.raised
        THEN Raise([c0 EXCEPT !.store_failed = "wider"], "store")
        ELSE IF b.raised THEN Raise(c1, "AttributeError")
        ELSE [c1 EXCEPT !.pc = "write", !.memories_to_store = b.records]

WiderSearch(c, r) ==
    LET c0 == DropFrame([c EXCEPT !.nSearch = @ + 1])
        c1 == [c0 EXCEPT !.existing_check = r.memories]
        e == ProfileAlreadyExists(r.memories, c.username)
        b == BuildMemories(c.scraped_data, c.username)
    IN  IF r.raised
        THEN Raise([c0 EXCEPT !.store_failed = "wider"], "store")
        ELSE IF e = "raise" THEN Raise(c1, "AttributeError")
        ELSE IF e = "yes"
        THEN Return([c1 EXCEPT !.profile_already_exists = TRUE], c.scraped_data)
        ELSE IF b.raised THEN Raise(c1, "AttributeError")
        ELSE [c1 EXCEPT !.pc = "write", !.memories_to_store = b.records]

\* a write whose failure is swallowed: the scraped record is returned
WriteSwallowsFailure(c, raised) ==
    IF raised
    THEN Return([c EXCEPT !.nWrite = @ + 1, !.store_failed = "write"],
                c.scraped_data)
    ELSE Return([c EXCEPT !.nWrite = @ + 1, !.written = c.memories_to_store],
                c.scraped_data)

\* await client.create_long_term_memory(memories_to_store)
Write(c, raised) ==
    IF raised
    THEN Raise([c EXCEPT !.nWrite = @ + 1, !.store_failed = "write"], "store")
    ELSE Return([c EXCEPT !.nWrite = @ + 1, !.written = c.memories_to_store],
                c.scraped_data)

\* finally: await client.close()
Close(c) ==
    [DropFrame(c) EXCEPT !.pc = "done", !.session = "closed", !.nClose = @ + 1]

(***************************************************************************)
(* The route /scrape (scrape_linkedin_profile), after the call it awaits.  *)
(* A message is None (NoVal) or a one-element tuple holding the text.      *)
(***************************************************************************)
\* str(e) of the exceptions the program raises itself: the Exception of
\* line 183, and the AttributeError of a .get or .copy on a non-object
ScrapeFailedText == <<"Failed to scrape LinkedIn profile">>
AttributeErrorText == <<"object has no attribute">>

\* str(e) of an exception that came from the memory-store client: its text
\* is the client's, and may be empty
StoreErrorTexts == { <<"">>, <<"store unreachable">> }

\* format_profile_output: the profile with its activity list replaced by a
\* summary, serialized
format_profile_output(profile_data) ==
    JsonDumps([profile_data EXCEPT !.activity = NoVal])

\* the except clause: LinkedInResponse(success=False, error=str(e))
ErrorResponse(text) == LinkedInResponse(FALSE, Null, <<>>, text, FALSE)

\* the body of the try block after the call returned profile_data:
\* profile_data.copy() or profile_data.get raises when it is no object
SuccessResponse(profile_data) ==
    IF profile_data.kind # "object"
    THEN ErrorResponse(AttributeErrorText)
    ELSE LinkedInResponse(TRUE, profile_data,
                          format_profile_output(profile_data), NoVal,
                          profile_data.timestamp = NoVal)

\* the route returns; store_text is str(e) when e came from the store client
Respond(c, store_text) ==
    [c EXCEPT !.reply =
        IF c.outcome.kind = "raised"
        THEN ErrorResponse(IF c.outcome.err = "store" THEN store_text
                           ELSE IF c.outcome.err = "scrape_failed"
                           THEN ScrapeFailedText
                           ELSE AttributeErrorText)
        ELSE SuccessResponse(c.outcome.v)]

(***************************************************************************)
(* One call of smart_linkedin_scraper.                                     *)
(***************************************************************************)
Idle == NewCall("idle", <<>>)

Init ==
    /\ call \in { NewCall("start", u) : u \in ProfileUrls }
    /\ twin = Idle
    /\ store = <<>>

DoOpen ==
    /\ call.pc = "start"
    /\ \E raised \in BOOLEAN : call' = OpenSession(call, raised)
    /\ UNCHANGED <<twin, store>>

DoNarrowSearch ==
    /\ call.pc = "narrow"
    /\ \E r \in NarrowResponses : call' = NarrowSearch(call, r)
    /\ UNCHANGED <<twin, store>>

DoSubmit ==
    /\ call.pc = "submit"
    /\ \E resp \in PostResponses : call' = Submit(call, resp)
    /\ UNCHANGED <<twin, store>>

DoPoll ==
    /\ call.pc = "poll"
    /\ \E resp \in PollResponses : call' = Poll(call, resp)
    /\ UNCHANGED <<twin, store>>

DoSleep ==
    /\ call.pc = "sleep"
    /\ call' = Sleep(call)
    /\ UNCHANGED <<twin, store>>

DoWiderSearch ==
    /\ call.pc = "wider"
    /\ \E r \in WideResponses : call' = WiderSearch(call, r)
    /\ UNCHANGED <<twin, store>>

DoWrite ==
    /\ call.pc = "write"
    /\ \E raised \in BOOLEAN : call' = Write(call, raised)
    /\ store' = store \o call'.written
    /\ UNCHANGED twin

DoClose ==
    /\ call.pc = "close"
    /\ call' = Close(call)
    /\ UNCHANGED <<twin, store>>

DoRespond ==
    /\ call.pc = "done"
    /\ ~call.reply.sent
    /\ \E text \in StoreErrorTexts : call' = Respond(call, text)
    /\ UNCHANGED <<twin, store>>

Next ==
    \/ DoOpen
    \/ DoNarrowSearch
    \/ DoSubmit
    \/ DoPoll
    \/ DoSleep
    \/ DoWiderSearch
    \/ DoWrite
    \/ DoClose
    \/ DoRespond

Spec == Init /\ [][Next]_vars

(***************************************************************************)
(* Two calls for the same URL run side by side and are given the same      *)
(* answers by the provider and the store, but for the narrow search: it    *)
(* returns no record to call, and a record whose text does not deserialize *)
(* to twin.                                                                *)
(***************************************************************************)
CorruptTexts ==
    { <<>>, <<GarbageLine>>, << JsonLine(ProfileA), JsonLine(ProfileA) >> }

InitPair ==
    /\ call \in { NewCall("start", u) : u \in ProfileUrls }
    /\ twin = call
    /\ store = <<>>

Both(pc) == call.pc = pc /\ twin.pc = pc

PairOpen ==
    /\ Both("start")
    /\ call' = OpenSession(call, FALSE)
    /\ twin' = OpenSession(twin, FALSE)
    /\ UNCHANGED store

PairNarrowSearch ==
    /\ Both("narrow")
    /\ call' = NarrowSearch(call, Found(<<>>))
    /\ \E t \in CorruptTexts : twin' = NarrowSearch(twin, Found(<<t>>))
    /\ UNCHANGED store

PairSubmit ==
    /\ Both("submit")
    /\ \E resp \in PostResponses :
          call' = Submit(call, resp) /\ twin' = Submit(twin, resp)
    /\ UNCHANGED store

PairPoll ==
    /\ Both("poll")
    /\ \E resp \in PollResponses :
          call' = Poll(call, resp) /\ twin' = Poll(twin, resp)
    /\ UNCHANGED store

PairSleep ==
    /\ Both("sleep")
    /\ call' = Sleep(call)
    /\ twin' = Sleep(twin)
    /\ UNCHANGED store

PairWiderSearch ==
    /\ Both("wider")
    /\ \E r \in WideResponses :
          call' = WiderSearch(call, r) /\ twin' = WiderSearch(twin, r)
    /\ UNCHANGED store

PairWrite ==
    /\ Both("write")
    /\ \E raised \in BOOLEAN :
          call' = Write(call, raised) /\ twin' = Write(twin, raised)
    /\ store' = store \o call'.written \o twin'.written

PairClose ==
    /\ Both("close")
    /\ call' = Close(call)
    /\ twin' = Close(twin)
    /\ UNCHANGED store

NextPair ==
    \/ PairOpen
    \/ PairNarrowSearch
    \/ PairSubmit
    \/ PairPoll
    \/ PairSleep
    \/ PairWiderSearch
    \/ PairWrite
    \/ PairClose

SpecPair == InitPair /\ [][NextPair]_vars

(***************************************************************************)
(* The second copy of the algorithm, in src/mcp-brightdata-test.py         *)
(* (_scrape_new_profile and smart_linkedin_scraper), translated from that  *)
(* module with its own constants.  `call` runs the server's copy and       *)
(* `twin` the test module's, on the same answers of the provider and of    *)
(* the memory store.  The print statements, which differ, are left out:    *)
(* they are the logging.                                                   *)
(***************************************************************************)
\* max_attempts = 15
test_max_attempts == 15

\* time.sleep(10)
test_poll_delay == 10

\* len(payloads_to_try)
TestNumPayloads == 4

\* scraped_data['activity'][:10]
test_activity_cap == 10

\* activity.get('title', 'No title')[:100]
test_title_limit == 100

\* lines 345-353 of the test module
TestOpenSession(c, raised) ==
    IF raised
    THEN [c EXCEPT !.pc = "done",
                   !.username = Username(c.profile_url),
                   !.outcome = [kind |-> "raised", v |-> Null, err |-> "store"]]
    ELSE [c EXCEPT !.pc = "narrow", !.session = "open",
                   !.username = Username(c.profile_url)]

\* lines 366-374 of the test module
TestCacheLookup(memories) ==
    IF memories # <<>>
    THEN LET d == JsonLoads(memories[1]) IN
         IF d.ok THEN [hit |-> TRUE, cached_data |-> d.v]
         ELSE [hit |-> FALSE, cached_data |-> Null]
    ELSE [hit |-> FALSE, cached_data |-> Null]

\* lines 355-374 of the test module
TestNarrowSearch(c, r) ==
    LET c1 == [c EXCEPT !.nSearch = @ + 1, !.search_results = r.memories]
        l == TestCacheLookup(r.memories)
    IN  IF r.raised
        THEN Raise([c EXCEPT !.nSearch = @ + 1, !.store_failed = "narrow"],
                   "store")
        ELSE IF l.hit THEN Return(c1, l.cached_data)
        ELSE [c1 EXCEPT !.pc = "submit", !.i = 0]

\* lines 376-381 of the test module
TestScrapeReturns(c, v) ==
    IF v = Null
    THEN Raise(c, "scrape_failed")
    ELSE [c EXCEPT !.pc = "wider", !.scraped_data = v]

\* lines 172-199 of the test module
TestTriggerResult(resp, snapshot_id) ==
    IF resp.raised THEN [brk |-> FALSE, snapshot_id |-> snapshot_id]
    ELSE IF resp.code = 200
    THEN LET d == JsonLoads(resp.body) IN
         IF d.ok /\ d.v.kind = "object"
         THEN [brk |-> TRUE, snapshot_id |-> d.v.snapshot_id]
         ELSE [brk |-> FALSE, snapshot_id |-> snapshot_id]
    ELSE [brk |-> FALSE, snapshot_id |-> snapshot_id]

\* lines 170-204 of the test module
TestSubmit(c, resp) ==
    LET r == TestTriggerResult(resp, c.snapshot_id)
        c1 == [c EXCEPT !.nPost = @ + 1,
                        !.posts = Append(@, [variant |-> c.i + 1,
                                             refused |-> Refused(resp)]),
                        !.snapshot_id = r.snapshot_id]
    IN  IF r.brk \/ c.i + 1 = TestNumPayloads
        THEN IF r.snapshot_id = NoVal
             THEN TestScrapeReturns(c1, Null)
             ELSE [c1 EXCEPT !.pc = "poll", !.attempt = 0, !.poller = "pending"]
        ELSE [c1 EXCEPT !.i = @ + 1]

\* a drifted copy of the Poller: without the line-delimited fallback of
\* lines 235-244
TestPollOutcomeWithoutFallback(resp) ==
    IF resp.raised THEN PollReturn("failed", Null)
    ELSE IF resp.code = 200
    THEN LET d == JsonLoads(resp.body) IN
         IF d.ok
         THEN IF d.v.kind = "object" /\ d.v.status = "running" THEN PollSleep
              ELSE IF d.v.kind = "object" /\ d.v.status # "absent" THEN PollSleep
              ELSE PollReturn("succeeded", d.v)
         ELSE PollReturn("failed", Null)
    ELSE IF resp.code = 202
    THEN LET d == JsonLoads(resp.body) IN
         IF d.ok /\ d.v.kind # "object"
         THEN PollReturn("failed", Null)
         ELSE PollSleep
    ELSE PollReturn("failed", Null)

\* lines 213-263 of the test module
TestPollOutcome(resp) ==
    IF resp.raised THEN PollReturn("failed", Null)
    ELSE IF resp.code = 200
    THEN LET d == JsonLoads(resp.body)
             lines == Strip(resp.body)
         IN  IF d.ok
             THEN IF d.v.kind = "object" /\ d.v.status = "running" THEN PollSleep
                  ELSE IF d.v.kind = "object" /\ d.v.status # "absent" THEN PollSleep
                  ELSE PollReturn("succeeded", d.v)
             ELSE IF lines # <<>>
                  THEN IF lines[1].t = "json"
                       THEN PollReturn("succeeded", lines[1].v)
                       ELSE PollReturn("failed", Null)
                  ELSE PollNext
    ELSE IF resp.code = 202
    THEN LET d == JsonLoads(resp.body) IN
         IF d.ok /\ d.v.kind # "object"
         THEN PollReturn("failed", Null)
         ELSE PollSleep
    ELSE PollReturn("failed", Null)

\* lines 212-266 of the test module
TestNextAttempt(c) ==
    IF c.attempt + 1 < test_max_attempts
    THEN [c EXCEPT !.pc = "poll", !.attempt = @ + 1]
    ELSE TestScrapeReturns([c EXCEPT !.poller = "timed_out"], Null)

\* lines 212-263 of the test module
TestPoll(c, resp) ==
    LET o == TestPollOutcome(resp)
        c1 == [c EXCEPT !.nGet = @ + 1, !.response = Seen(resp),
                        !.inProgressOnly = @ /\ InProgress(resp),
                        !.statusOnly = @ /\ ReportsStatus(resp),
                        !.waited = 0]
    IN  IF o.act = "return" THEN TestScrapeReturns([c1 EXCEPT !.poller = o.state], o.v)
        ELSE IF o.act = "sleep" THEN [c1 EXCEPT !.pc = "sleep", !.poller = "running"]
        ELSE TestNextAttempt(c1)

\* lines 223-224 of the test module
TestSleep(c) ==
    TestNextAttempt([c EXCEPT !.response = NoResponse,
                          !.waited = @ + test_poll_delay])

\* lines 398-398 of the test module
TestExistingUsername(existing_data) ==
    IF existing_data.linkedin_id # NoVal
    THEN existing_data.linkedin_id
    ELSE existing_data.id

\* lines 393-404 of the test module
RECURSIVE TestProfileAlreadyExists(_, _)
TestProfileAlreadyExists(memories, username) ==
    IF memories = <<>> THEN "no"
    ELSE LET d == JsonLoads(Head(memories)) IN
         IF ~d.ok THEN TestProfileAlreadyExists(Tail(memories), username)
         ELSE IF d.v.kind # "object" THEN "raise"
         ELSE IF TestExistingUsername(d.v) = username THEN "yes"
         ELSE TestProfileAlreadyExists(Tail(memories), username)

\* lines 424-424 of the test module
TestActivityLine(username, activity) ==
    [t |-> "text",
     v |-> [username |-> username,
            interaction |-> IF activity.interaction = NoVal
                            THEN <<"Unknown">> ELSE activity.interaction,
            title |-> Slice(IF activity.title = NoVal
                            THEN Str(<<"No title", 0>>, 8) ELSE activity.title,
                            test_title_limit)]]

\* lines 411-419 of the test module
TestProfileRecord(scraped_data, username) ==
    [memory_type |-> "semantic", text |-> JsonDumps(scraped_data),
     username |-> username]

\* lines 426-434 of the test module
TestActivityRecord(username, activity) ==
    [memory_type |-> "episodic", text |-> << TestActivityLine(username, activity) >>,
     username |-> username]

\* lines 423-423 of the test module
TestFirstActivities(activity) ==
    SubSeq(activity, 1, IF Len(activity) < test_activity_cap
                        THEN Len(activity) ELSE test_activity_cap)

\* lines 406-434 of the test module
TestBuildMemories(scraped_data, username) ==
    IF scraped_data.kind # "object"
    THEN [raised |-> TRUE, records |-> <<>>]
    ELSE [raised |-> FALSE,
          records |-> << TestProfileRecord(scraped_data, username) >>
                      \o [k \in 1..Len(TestFirstActivities(scraped_data.activity)) |->
                            TestActivityRecord(username, scraped_data.activity[k])]]

\* lines 384-419 of the test module
TestWiderSearch(c, r) ==
    LET c0 == DropFrame([c EXCEPT !.nSearch = @ + 1])
        c1 == [c0 EXCEPT !.existing_check = r.memories]
        e == TestProfileAlreadyExists(r.memories, c.username)
        b == TestBuildMemories(c.scraped_data, c.username)
    IN  IF r.raised
        THEN Raise([c0 EXCEPT !.store_failed = "wider"], "store")
        ELSE IF e = "raise" THEN Raise(c1, "AttributeError")
        ELSE IF e = "yes"
        THEN Return([c1 EXCEPT !.profile_already_exists = TRUE], c.scraped_data)
        ELSE IF b.raised THEN Raise(c1, "AttributeError")
        ELSE [c1 EXCEPT !.pc = "write", !.memories_to_store = b.records]

\* lines 436-440 of the test module
TestWrite(c, raised) ==
    IF raised
    THEN Raise([c EXCEPT !.nWrite = @ + 1, !.store_failed = "write"], "store")
    ELSE Return([c EXCEPT !.nWrite = @ + 1, !.written = c.memories_to_store],
                c.scraped_data)

\* lines 442-443 of the test module
TestClose(c) ==
    [DropFrame(c) EXCEPT !.pc = "done", !.session = "closed", !.nClose = @ + 1]

\* the answers to a status poll: those of one call, and a profile with more
\* activity events than are stored
CopiesPollResponses ==
    PollResponses \cup { Http(200, OneLine(WithActivity(ProfileA, MaxActivities))) }

CopiesOpen ==
    /\ Both("start")
    /\ \E raised \in BOOLEAN :
          call' = OpenSession(call, raised) /\ twin' = TestOpenSession(twin, raised)
    /\ UNCHANGED store

CopiesNarrowSearch ==
    /\ Both("narrow")
    /\ \E r \in NarrowResponses :
          call' = NarrowSearch(call, r) /\ twin' = TestNarrowSearch(twin, r)
    /\ UNCHANGED store

CopiesSubmit ==
    /\ Both("submit")
    /\ \E resp \in PostResponses :
          call' = Submit(call, resp) /\ twin' = TestSubmit(twin, resp)
    /\ UNCHANGED store

CopiesPoll ==
    /\ Both("poll")
    /\ \E resp \in CopiesPollResponses :
          call' = Poll(call, resp) /\ twin' = TestPoll(twin, resp)
    /\ UNCHANGED store

CopiesSleep ==
    /\ Both("sleep")
    /\ call' = Sleep(call)
    /\ twin' = TestSleep(twin)
    /\ UNCHANGED store

CopiesWiderSearch ==
    /\ Both("wider")
    /\ \E r \in WideResponses :
          call' = WiderSearch(call, r) /\ twin' = TestWiderSearch(twin, r)
    /\ UNCHANGED store

CopiesWrite ==
    /\ Both("write")
    /\ \E raised \in BOOLEAN :
          call' = Write(call, raised) /\ twin' = TestWrite(twin, raised)
    /\ store' = store \o call'.written

CopiesClose ==
    /\ Both("close")
    /\ call' = Close(call)
    /\ twin' = TestClose(twin)
    /\ UNCHANGED store

NextCopies ==
    \/ CopiesOpen
    \/ CopiesNarrowSearch
    \/ CopiesSubmit
    \/ CopiesPoll
    \/ CopiesSleep
    \/ CopiesWiderSearch
    \/ CopiesWrite
    \/ CopiesClose

SpecCopies == InitPair /\ [][NextCopies]_vars

(***************************************************************************)
(* The username of a URL and of the same URL followed by a slash: `call`   *)
(* is given the URL, `twin` the URL with the slash, and both derive their  *)
(* username on entry.  A URL is "l/" followed by characters among a        *)
(* letter, the slash and the question mark that starts a query string.     *)
(***************************************************************************)
UrlChars == {"a", "/", "?"}

Urls == { <<"l", "/">> \o t : t \in UNION { [1..k -> UrlChars] : k \in 0..MaxUrlLen } }

InitUrl ==
    /\ \E u \in Urls :
          /\ call = NewCall("start", u)
          /\ twin = NewCall("start", Append(u, "/"))
    /\ store = <<>>

UrlOpen ==
    /\ Both("start")
    /\ call' = OpenSession(call, FALSE)
    /\ twin' = OpenSession(twin, FALSE)
    /\ UNCHANGED store

SpecUrl == InitUrl /\ [][UrlOpen]_vars

(***************************************************************************)
(* Two calls on one memory store.  `call` and `twin` are two orchestration *)
(* calls served by one event loop: a call gives way to the other only at   *)
(* an await (create_memory_client, the searches, the write, close), and    *)
(* _scrape_new_profile, which blocks on requests and time.sleep, runs      *)
(* without interruption.  The store answers the narrow search with nothing *)
(* or with one profile record it holds for the username, and the wider     *)
(* search with the profile records it holds for the username; a write      *)
(* appends the batch.  The provider accepts the first submission and       *)
(* answers the first status poll with a profile or an error.               *)
(***************************************************************************)
StoreUrls == ProfileUrls \cup { <<"l", "/", "b">> }

\* the profiles the provider may return for a username: with its
\* linkedin_id and some activity, or with neither linkedin_id nor id (such
\* as {"name": "Jane Doe", "current_company": {"name": "Acme"}})
ProfilesOf(username) ==
    { WithActivity(JObj("absent", NoVal, username, NoVal), n) : n \in ActivityCounts }
    \cup { EmptyObject, Stamped(JObj("absent", NoVal, username, NoVal)) }

StorePostResponses == { Http(200, OneLine(JobStarted)) }

StorePollResponses(username) ==
    { Http(500, <<>>) } \cup { Http(200, OneLine(p)) : p \in ProfilesOf(username) }

\* the texts of the semantic records stored for a username, oldest first
RECURSIVE ProfilesStored(_, _)
ProfilesStored(st, username) ==
    IF st = <<>> THEN <<>>
    ELSE LET rest == ProfilesStored(Tail(st), username)
         IN  IF st[1].memory_type = "semantic" /\ st[1].username = username
             THEN << st[1].text >> \o rest
             ELSE rest

\* max_results=1: nothing, or one of the stored profile records
StoreNarrowResponses(st, username) ==
    LET texts == ProfilesStored(st, username)
    IN  { Found(<<>>) } \cup { Found(<< texts[k] >>) : k \in DOMAIN texts }

\* max_results=5: the stored profile records of the username
StoreWiderResponse(st, username) ==
    LET texts == ProfilesStored(st, username)
    IN  Found(SubSeq(texts, 1, IF Len(texts) < wider_max_results
                               THEN Len(texts) ELSE wider_max_results))

Callers == {"call", "twin"}
CallOf(w) == IF w = "call" THEN call ELSE twin
Other(w) == IF w = "call" THEN "twin" ELSE "call"

Becomes(w, c) ==
    IF w = "call" THEN call' = c /\ twin' = twin
                  ELSE twin' = c /\ call' = call

\* the call has started and has not ended
InFlight(c) == c.pc \notin {"idle", "start", "done"}

\* the call is inside _scrape_new_profile, which never awaits
Blocking(c) == c.pc \in {"submit", "poll", "sleep"}

\* the event loop can resume the call
MayRun(w) == ~Blocking(CallOf(Other(w)))

InitStore ==
    /\ call \in { NewCall("start", u) : u \in StoreUrls }
    /\ twin \in { NewCall("start", u) : u \in StoreUrls }
    /\ store = <<>>

StoreOpen(w) ==
    /\ MayRun(w)
    /\ CallOf(w).pc = "start"
    /\ Becomes(w, [OpenSession(CallOf(w), FALSE)
                     EXCEPT !.solo = ~InFlight(CallOf(Other(w)))])
    /\ UNCHANGED store

StoreNarrowSearch(w) ==
    /\ MayRun(w)
    /\ CallOf(w).pc = "narrow"
    /\ \E r \in StoreNarrowResponses(store, CallOf(w).username) :
          Becomes(w, NarrowSearch(CallOf(w), r))
    /\ UNCHANGED store

StoreSubmit(w) ==
    /\ MayRun(w)
    /\ CallOf(w).pc = "submit"
    /\ \E resp \in StorePostResponses : Becomes(w, Submit(CallOf(w), resp))
    /\ UNCHANGED store

StorePoll(w) ==
    /\ MayRun(w)
    /\ CallOf(w).pc = "poll"
    /\ \E resp \in StorePollResponses(CallOf(w).username) :
          Becomes(w, Poll(CallOf(w), resp))
    /\ UNCHANGED store

StoreWiderSearch(w) ==
    /\ MayRun(w)
    /\ CallOf(w).pc = "wider"
    /\ Becomes(w, WiderSearch(CallOf(w),
                              StoreWiderResponse(store, CallOf(w).username)))
    /\ UNCHANGED store

StoreWrite(w) ==
    /\ MayRun(w)
    /\ CallOf(w).pc = "write"
    /\ Becomes(w, Write(CallOf(w), FALSE))
    /\ store' = store \o CallOf(w).memories_to_store

StoreClose(w) ==
    /\ MayRun(w)
    /\ CallOf(w).pc = "close"
    /\ Becomes(w, Close(CallOf(w)))
    /\ UNCHANGED store

StoreRespond(w) ==
    /\ MayRun(w)
    /\ CallOf(w).pc = "done"
    /\ ~CallOf(w).reply.sent
    /\ \E text \in StoreErrorTexts : Becomes(w, Respond(CallOf(w), text))
    /\ UNCHANGED store

NextStore ==
    \E w \in Callers :
        \/ StoreOpen(w)
        \/ StoreNarrowSearch(w)
        \/ StoreSubmit(w)
        \/ StorePoll(w)
        \/ StoreWiderSearch(w)
        \/ StoreWrite(w)
        \/ StoreClose(w)
        \/ StoreRespond(w)

SpecStore == InitStore /\ [][NextStore]_vars

(***************************************************************************)
(* Properties of one call.                                                 *)
(***************************************************************************)
ScrapeFailedError == [kind |-> "raised", v |-> Null, err |-> "scrape_failed"]
Returned(v) == [kind |-> "returned", v |-> v, err |-> "none"]

\* the narrow search returned a record whose text deserializes
CacheHit(c) == c.search_results # <<>> /\ JsonLoads(c.search_results[1]).ok

\* C1: when the narrow search returns a record whose text deserializes, the
\* call returns exactly that value and issues no job submission, no status
\* poll, no second search and no write.
C1_CacheHit ==
    CacheHit(call) =>
        /\ call.outcome = Returned(JsonLoads(call.search_results[1]).v)
        /\ call.nPost = 0
        /\ call.nGet = 0
        /\ call.nSearch = 1
        /\ call.nWrite = 0

C1_Witness ==
    /\ call.pc = "done"
    /\ call.search_results = << OneLine(ProfileA) >>
    /\ call.outcome = Returned(ProfileA)

\* a text whose stored identity indicator is the username
HasIdentity(text, username) ==
    /\ JsonLoads(text).ok
    /\ JsonLoads(text).v.kind = "object"
    /\ ExistingUsername(JsonLoads(text).v) = username

\* C2: after a successful scrape, if a candidate of the wider search carries
\* the identity key of the call, no write is issued and the scraped record is
\* returned.
C2_DuplicateSuppressed ==
    ( /\ call.pc = "done"
      /\ call.nSearch = 2
      /\ \E k \in 1..Len(call.existing_check) :
              HasIdentity(call.existing_check[k], call.username) )
    => /\ call.nWrite = 0
       /\ call.outcome = Returned(call.scraped_data)

\* what a call shows: its position, the calls it issued to the provider and
\* the store, what it wrote and how it ended
Observable(c) ==
    [pc |-> c.pc, session |-> c.session, nSearch |-> c.nSearch,
     nPost |-> c.nPost, nGet |-> c.nGet, nWrite |-> c.nWrite,
     nClose |-> c.nClose, posts |-> c.posts, poller |-> c.poller,
     written |-> c.written, outcome |-> c.outcome]

\* C3: a call whose narrow search returned a record that does not
\* deserialize (twin) issues the same calls and ends the same way as a call
\* whose narrow search returned no record (call), given the same answers; the
\* corruption is never raised.
C3_CorruptIsMiss ==
    /\ Observable(twin) = Observable(call)
    /\ twin.outcome.kind = "raised" =>
          twin.outcome.err \in {"scrape_failed", "store", "AttributeError"}

C3_Witness ==
    /\ twin.search_results = << <<GarbageLine>> >>
    /\ call.search_results = <<>>
    /\ twin.pc = "done"
    /\ twin.nGet = 2
    /\ twin.outcome = Returned(ProfileA)
    /\ twin.written # <<>>

\* the Scrape Initiator ended without a job
NoJob(c) == c.posts # <<>> /\ c.pc # "submit" /\ c.poller = "idle"

\* C4: when the Initiator obtains no job or the Poller ends failed or
\* timed_out, the call raises the scrape-failed error, with no wider search,
\* no write and no record.
C4_ScrapeFailure ==
    (NoJob(call) \/ call.poller \in {"failed", "timed_out"}) =>
        /\ call.outcome = ScrapeFailedError
        /\ call.nSearch = 1
        /\ call.nWrite = 0
        /\ call.written = <<>>
        /\ call.scraped_data = Null

C4_Witness ==
    /\ call.pc = "done"
    /\ call.poller = "timed_out"
    /\ call.outcome = ScrapeFailedError

\* C5: when every status poll is answered in-progress (200 with a
\* status-running body, or 202), the Poller ends only as timed_out, after
\* exactly 15 polls, with no data.
C5_TimeoutAfterBudget ==
    ( /\ call.inProgressOnly
      /\ call.poller \in {"succeeded", "failed", "timed_out"} )
    => /\ call.poller = "timed_out"
       /\ call.nGet = max_attempts
       /\ call.outcome = ScrapeFailedError

\* C6: the payload variants are submitted in the order 1, 2, 3, 4, each at
\* most once, and none after the first one the provider accepted.
C6_SubmissionOrder ==
    /\ Len(call.posts) <= NumPayloads
    /\ call.nPost = Len(call.posts)
    /\ \A k \in 1..Len(call.posts) :
          /\ call.posts[k].variant = k
          /\ k < Len(call.posts) => call.posts[k].refused

C6_Witness ==
    /\ Len(call.posts) = 3
    /\ ~call.posts[3].refused
    /\ call.pc = "poll"

\* C7: the Initiator signals failure (no job, no status poll) exactly when
\* all four variants were submitted and each was rejected or errored.
C7_FailureOnlyAfterAllVariants ==
    (call.posts # <<>> /\ call.pc # "submit") =>
        ( (NoJob(call) /\ call.nGet = 0)
          <=> ( /\ Len(call.posts) = NumPayloads
                /\ \A k \in 1..Len(call.posts) : call.posts[k].refused ) )

\* the step is a status poll
PollStep == call'.nGet = call.nGet + 1

\* the Poller ended in failed at this attempt, without data
FailedHere ==
    /\ call'.poller = "failed"
    /\ call'.pc = "close"
    /\ call'.outcome = ScrapeFailedError
    /\ call'.scraped_data = Null
    /\ call'.nGet = call.attempt + 1

\* C8: a status poll that raises, or whose HTTP status is neither 200 nor
\* 202, ends the Poller in failed at that attempt: no data, no further poll.
C8_BadStatusFails ==
    [][ /\ ( PollStep /\ ( \/ call'.response.raised
                           \/ call'.response.code \notin {200, 202} ) )
           => FailedHere
        /\ call.poller = "failed" => call'.nGet = call.nGet ]_vars

C8_Witness ==
    /\ call.poller = "failed"
    /\ call.response.code = 500
    /\ call.nGet = 2

\* C9: an HTTP 200 poll answer whose body neither the primary decoder nor the
\* first-line decoder can parse ends the Poller in failed at that attempt.
C9_UndecodableFails ==
    [][ ( /\ PollStep
          /\ ~call'.response.raised
          /\ call'.response.code = 200
          /\ ~call'.response.json.ok
          /\ call'.response.first.t # "json" )
        => FailedHere ]_vars

\* C10: an HTTP 202 poll answer never ends the Poller, whatever its body, and
\* the Poller polls again while the budget is not exhausted.
C10_AcceptedKeepsPolling ==
    [][ ( /\ PollStep
          /\ ~call'.response.raised
          /\ call'.response.code = 202 )
        => /\ call'.poller \notin {"succeeded", "failed"}
           /\ call.attempt + 1 < max_attempts => call'.pc = "sleep" ]_vars

\* C11: whenever the Poller ends in succeeded, the payload it returns carries
\* no in-progress status marker, whichever decoder produced it.
C11_SucceededHasNoStatusMarker ==
    call.poller = "succeeded"
    => ~( /\ call.scraped_data.kind = "object"
          /\ call.scraped_data.status = "running" )

\* C12: between any two consecutive status polls of one job the Poller has
\* waited exactly one delay of 10: no poll follows another back to back.
C12_PollCadence ==
    [][ (PollStep /\ call.nGet >= 1) => call.waited = poll_delay ]_vars

\* the external call made by the step
OpenStep == call.session = "none" /\ call'.session = "open"
SearchStep == call'.nSearch = call.nSearch + 1
PostStep == call'.nPost = call.nPost + 1
WriteStep == call'.nWrite = call.nWrite + 1
CloseStep == call'.nClose = call.nClose + 1

\* C13: the external calls of one orchestration occur only in the order
\* session-open, narrow search, job submissions, status polls, wider search,
\* write, session-close: no status poll before a submission was accepted, no
\* provider call before the narrow search returned, no write without a wider
\* search before it.
C13_ProtocolOrder ==
    [][ /\ OpenStep =>
              /\ call.nSearch = 0 /\ call.nPost = 0 /\ call.nGet = 0
              /\ call.nWrite = 0 /\ call.nClose = 0
        /\ SearchStep =>
              /\ call.session = "open" /\ call.nWrite = 0
              /\ call.nSearch <= 1
              /\ call.nSearch = 0 => (call.nPost = 0 /\ call.nGet = 0)
              /\ call.nSearch = 1 => (call.nPost >= 1 /\ call.nGet >= 1)
        /\ PostStep =>
              /\ call.session = "open" /\ call.nSearch = 1
              /\ call.nGet = 0 /\ call.nWrite = 0
        /\ PollStep =>
              /\ call.session = "open" /\ call.nSearch = 1
              /\ call.nWrite = 0
              /\ call.posts # <<>>
              /\ ~call.posts[Len(call.posts)].refused
        /\ WriteStep =>
              /\ call.session = "open" /\ call.nSearch = 2
              /\ call.nWrite = 0
        /\ CloseStep => call.session = "open"
        /\ call.session = "closed" =>
              /\ call'.nSearch = call.nSearch /\ call'.nPost = call.nPost
              /\ call'.nGet = call.nGet /\ call'.nWrite = call.nWrite
              /\ call'.nClose = call.nClose ]_vars

C13_Witness ==
    /\ call.pc = "done"
    /\ call.nSearch = 2
    /\ call.nPost = 2
    /\ call.nGet = 2
    /\ call.nWrite = 1
    /\ call.nClose = 1

\* C14: a call that has opened a memory-store session closes it exactly once
\* before it ends, on every exit path: the call never ends with the session
\* open, and the session is never closed twice.
C14_SessionClosedOnce ==
    /\ call.nClose <= 1
    /\ (call.session = "closed") <=> (call.nClose = 1)
    /\ (call.pc = "done" /\ call.session # "none") =>
          /\ call.session = "closed"
          /\ call.outcome.kind \in {"returned", "raised"}

C14_Witness ==
    /\ call.pc = "done"
    /\ call.session = "closed"
    /\ call.nClose = 1
    /\ call.nWrite = 1
    /\ call.outcome.kind = "raised"

(***************************************************************************)
(* Properties of calls that share the store.                               *)
(***************************************************************************)
Least(a, b) == IF a < b THEN a ELSE b

\* the record is the episodic record of the event: its interaction, and its
\* title cut to at most 100 characters
SummarizesEvent(record, event) ==
    LET t == record.text[1].v IN
    /\ record.memory_type = "episodic"
    /\ Len(record.text) = 1
    /\ StrLen(t.title) <= title_limit
    /\ event.interaction # NoVal => t.interaction = event.interaction
    /\ event.title # NoVal =>
          /\ t.title[1] = event.title[1]
          /\ StrLen(t.title) = Least(StrLen(event.title), title_limit)

\* the call scraped a profile and found no duplicate of it
StoresProfile(c) ==
    /\ c.pc \in {"close", "done"}
    /\ c.outcome.kind = "returned"
    /\ c.nGet > 0
    /\ ~c.profile_already_exists

NonOverlapping == call.solo /\ twin.solo

\* the narrow search of the second call returned the semantic record that
\* the first call wrote for the same URL
ReadsWhatWasWritten ==
    /\ NonOverlapping
    /\ call.written # <<>>
    /\ twin.profile_url = call.profile_url
    /\ twin.nSearch >= 1
    /\ twin.search_results = << call.written[1].text >>

\* C16: after a call missed the cache, scraped and wrote its batch, a second
\* call with the same URL to which the narrow search returns the written
\* semantic record returns a record equal to the one the first call
\* returned, with no provider call and no write.
C16_WriteThenRead ==
    ReadsWhatWasWritten =>
        /\ twin.outcome = call.outcome
        /\ twin.outcome = Returned(call.scraped_data)
        /\ twin.nPost = 0
        /\ twin.nGet = 0
        /\ twin.nWrite = 0

C16_Witness ==
    /\ ReadsWhatWasWritten
    /\ twin.pc = "done"
    /\ call.nGet = 1
    /\ call.scraped_data.activity # NoVal
    /\ twin.outcome.v.activity # NoVal

\* the usernames of the calls
IdentityKeys == { Username(u) : u \in StoreUrls }

\* C17: after non-overlapping calls the store holds at most one semantic
\* profile record for each identity key.
C17_OneProfilePerIdentity ==
    NonOverlapping =>
        \A u \in IdentityKeys : Len(ProfilesStored(store, u)) <= 1

StoreError == [kind |-> "raised", v |-> Null, err |-> "store"]

\* C18: when the narrow search, the wider search or the write fails, the
\* call fails with that error and returns no record, also when the scrape
\* had succeeded; the store call is not retried and nothing else is called
\* but close, and the session is closed.
C18_StoreFailurePropagates ==
    call.store_failed # "none" =>
        /\ call.pc \in {"close", "done"}
        /\ call.outcome = StoreError
        /\ call.written = <<>>
        /\ call.pc = "done" => (call.session = "closed" /\ call.nClose = 1)
        /\ call.store_failed = "narrow" =>
              /\ call.nSearch = 1 /\ call.nPost = 0
              /\ call.nGet = 0 /\ call.nWrite = 0
        /\ call.store_failed = "wider" =>
              /\ call.nSearch = 2 /\ call.nWrite = 0
              /\ call.scraped_data # Null
        /\ call.store_failed = "write" =>
              /\ call.nSearch = 2 /\ call.nWrite = 1
              /\ call.scraped_data # Null

C18_Witness ==
    /\ call.pc = "done"
    /\ call.store_failed = "wider"
    /\ call.poller = "succeeded"
    /\ call.session = "closed"

\* C19: when no memory-store call fails and the scrape succeeds, the call
\* returns the scraped record without raising, whatever the records returned
\* by the narrow and the wider search contain.
C19_ConditionsAbsorbed ==
    ( /\ call.pc = "done"
      /\ call.store_failed = "none"
      /\ call.poller = "succeeded"
      /\ call.scraped_data.kind = "object" )
    => call.outcome = Returned(call.scraped_data)

\* the stored semantic records of a username that the duplicate check
\* recognizes as that username's
RecognizedProfiles(u) ==
    { k \in DOMAIN ProfilesStored(store, u) :
         HasIdentity(ProfilesStored(store, u)[k], u) }

\* C20: calls for one URL are not coordinated.  A call writes whenever its
\* own wider search showed no record of its identity, whatever the other
\* call does meanwhile; two records that the duplicate check would have
\* recognized are in the store only when the calls overlapped.
C20_NoSingleFlight ==
    /\ \A w \in Callers :
          LET c == CallOf(w) IN
          /\ c.nWrite = 1 =>
                \A k \in DOMAIN c.existing_check :
                    ~HasIdentity(c.existing_check[k], c.username)
          /\ (StoresProfile(c) /\ c.pc = "done") =>
                \E k \in DOMAIN store : store[k] = c.written[1]
    /\ \A u \in IdentityKeys :
          Cardinality(RecognizedProfiles(u)) > 1 => ~NonOverlapping

\* both calls for one URL missed the cache, scraped, passed the duplicate
\* check and wrote: two semantic records of one identity are stored
C20_Witness ==
    /\ call.profile_url = twin.profile_url
    /\ call.pc = "done" /\ twin.pc = "done"
    /\ call.search_results = <<>> /\ twin.search_results = <<>>
    /\ call.nPost = 1 /\ twin.nPost = 1
    /\ call.nGet = 1 /\ twin.nGet = 1
    /\ ~call.profile_already_exists /\ ~twin.profile_already_exists
    /\ call.nWrite = 1 /\ twin.nWrite = 1
    /\ Cardinality(RecognizedProfiles(call.username)) = 2

\* a step of the second call
TwinStep ==
    \/ StoreOpen("twin")
    \/ StoreNarrowSearch("twin")
    \/ StoreSubmit("twin")
    \/ StorePoll("twin")
    \/ StoreWiderSearch("twin")
    \/ StoreWrite("twin")
    \/ StoreClose("twin")
    \/ StoreRespond("twin")

\* C21: while one request is in a provider call (a job submission or a
\* status poll) or in the poll delay, another request of the same process
\* that has not ended can take a step.
C21_SuspensionPoints ==
    (Blocking(call) /\ twin.pc \notin {"idle", "done"}) => ENABLED TwinStep

(***************************************************************************)
(* Properties of the routes.                                               *)
(***************************************************************************)
\* C22: the route /scrape answers every failure of the call with
\* success=false, a non-empty error message and no payload, and every call
\* that did not fail with success=true and the payload the call returned.
C22_ShellErrorMapping ==
    call.reply.sent =>
        /\ call.outcome.kind = "raised" =>
              /\ ~call.reply.success
              /\ call.reply.profile_data = Null
              /\ call.reply.error \notin {NoVal, <<"">>}
        /\ call.outcome.kind = "returned" =>
              /\ call.reply.success
              /\ call.reply.profile_data = call.outcome.v

\* the path of a URL: what precedes the query string
RECURSIVE UrlPath(_)
UrlPath(url) ==
    IF url = <<>> \/ Head(url) = "?" THEN <<>>
    ELSE << Head(url) >> \o UrlPath(Tail(url))

\* the segments of a path, separated by slashes
RECURSIVE Segments(_)
Segments(path) ==
    IF path = <<>> THEN << <<>> >>
    ELSE LET rest == Segments(Tail(path)) IN
         IF Head(path) = "/" THEN << <<>> >> \o rest
         ELSE << << Head(path) >> \o rest[1] >> \o Tail(rest)

RECURSIVE LastNonEmpty(_)
LastNonEmpty(segments) ==
    IF segments = <<>> THEN <<>>
    ELSE IF segments[Len(segments)] # <<>> THEN segments[Len(segments)]
    ELSE LastNonEmpty(SubSeq(segments, 1, Len(segments) - 1))

\* C23: for a URL that does not end with a slash, the username derived from
\* the URL followed by a slash equals the username derived from the URL, and
\* it is the last non-empty segment of the URL's path.
C23_IdentityKeyNormalization ==
    ( /\ Both("narrow")
      /\ call.profile_url[Len(call.profile_url)] # "/" )
    => /\ twin.username = call.username
       /\ call.username = LastNonEmpty(Segments(UrlPath(call.profile_url)))

\* the part of C23 about the slash alone
SlashIsIgnored ==
    ( /\ Both("narrow")
      /\ call.profile_url[Len(call.profile_url)] # "/" )
    => twin.username = call.username

\* C24: in every successful response of the route /scrape, cached is true
\* exactly when the record came from the memory store without a provider
\* call, and false exactly when it was scraped in that request.
C24_CachedFlag ==
    \A w \in Callers :
        LET c == CallOf(w) IN
        (c.reply.sent /\ c.reply.success) =>
            /\ c.reply.cached <=> (CacheHit(c) /\ c.nPost = 0 /\ c.nGet = 0)
            /\ ~c.reply.cached <=> (c.nGet > 0 /\ c.poller = "succeeded")

\* C25: on the same answers of the provider and of the memory store, the
\* two copies of _scrape_new_profile and of smart_linkedin_scraper make the
\* same provider calls, delays and store calls, and return or raise the
\* same outcome: step by step the two calls are in the same state.
C25_CopiesAgree ==
    /\ twin.pc = call.pc
    /\ twin.nPost = call.nPost /\ twin.posts = call.posts
    /\ twin.nGet = call.nGet /\ twin.waited = call.waited
    /\ twin.attempt = call.attempt /\ twin.poller = call.poller
    /\ twin.nSearch = call.nSearch /\ twin.nWrite = call.nWrite
    /\ twin.nClose = call.nClose
    /\ twin.memories_to_store = call.memories_to_store
    /\ twin.written = call.written
    /\ twin.scraped_data = call.scraped_data
    /\ twin.outcome = call.outcome

C25_Witness ==
    /\ twin.pc = "done"
    /\ twin.nPost = 2
    /\ twin.nGet = 3
    /\ Len(twin.written) = 1 + test_activity_cap
    /\ twin.outcome = call.outcome

(***************************************************************************)
(* One call in which every request to the provider returns or raises and   *)
(* every time.sleep returns: a step of _scrape_new_profile that can be     *)
(* taken is taken.                                                         *)
(***************************************************************************)
SpecFair ==
    Spec /\ WF_vars(DoSubmit) /\ WF_vars(DoPoll) /\ WF_vars(DoSleep)

\* _scrape_new_profile is running
InScrape(c) == c.pc \in {"submit", "poll", "sleep"}

\* _scrape_new_profile has returned
ScrapeOver(c) == c.posts # <<>> /\ ~InScrape(c)

PollerTerminal(c) == c.poller \in {"succeeded", "failed", "timed_out"}

ProviderTrafficBounded(c) ==
    /\ c.nPost <= NumPayloads
    /\ Len(c.posts) = c.nPost
    /\ c.nGet <= max_attempts

\* C26: when every provider call returns or raises, one scrape makes at
\* most 4 POSTs and at most 15 GETs and always returns; when it has
\* returned, either the Initiator obtained no job and no poll was made, or
\* the Poller is in succeeded, failed or timed_out.
C26_BoundedAndTerminates ==
    /\ [](/\ ProviderTrafficBounded(call)
          /\ ScrapeOver(call) =>
               \/ NoJob(call) /\ call.nGet = 0
               \/ PollerTerminal(call))
    /\ (InScrape(call) ~> ScrapeOver(call))

C26_Witness ==
    /\ ScrapeOver(call)
    /\ call.poller = "timed_out"
    /\ call.nPost = NumPayloads
    /\ call.nGet = max_attempts

\* C26 as stated: a scrape that has returned left the Poller in succeeded,
\* failed or timed_out.
C26_AlwaysPollerOutcome ==
    /\ ProviderTrafficBounded(call)
    /\ ScrapeOver(call) => PollerTerminal(call)


\* C27: an HTTP 200 poll answer whose body is an object with a status key,
\* whatever the value, ends the Poller neither in succeeded nor in failed:
\* the Poller sleeps once and goes on; a job whose every answer reports a
\* status ends only in timed_out, after 15 polls, with no data.
C27_AnyStatusKeepsPolling ==
    /\ [][ ( /\ PollStep
             /\ ~call'.response.raised
             /\ call'.response.code = 200
             /\ call'.response.json.ok
             /\ call'.response.json.v.kind = "object"
             /\ call'.response.json.v.status # "absent" )
           => /\ call'.poller = "running"
              /\ call'.pc = "sleep"
              /\ call'.waited = 0 ]_vars
    /\ [][ call.pc = "sleep"
           => /\ call'.nGet = call.nGet
              /\ \/ call'.pc = "poll" /\ call'.waited = poll_delay
                 \/ call'.poller = "timed_out" ]_vars
    /\ []( ( /\ call.statusOnly
             /\ call.poller \in {"succeeded", "failed", "timed_out"} )
           => /\ call.poller = "timed_out"
              /\ call.nGet = max_attempts
              /\ call.scraped_data = Null
              /\ call.outcome.kind = "raised" )

C27_Witness ==
    /\ call.statusOnly
    /\ ~call.inProgressOnly
    /\ call.poller = "timed_out"
    /\ call.nGet = max_attempts
    /\ call.outcome = ScrapeFailedError


(***************************************************************************)
(* The liveness route health_check, called up to MaxProbes times by a      *)
(* monitor.  `twin` holds the route: its position, the session of the      *)
(* request being served, the sessions opened and the close calls made      *)
(* since the server started, and the response.  create_memory_client,      *)
(* client.health_check and client.close each return or raise.              *)
(***************************************************************************)
MaxProbes == 6

Healthy == [status_code |-> 200, status |-> "healthy", rams_connection |-> "ok"]

Unhealthy ==
    [status_code |-> 503, status |-> "unhealthy", rams_connection |-> "failed"]

NoHealthResponse == [status_code |-> 0, status |-> "none", rams_connection |-> "none"]

HealthRoute(pc, requests, session, nOpen, nClose, response) ==
    [pc |-> pc, requests |-> requests, session |-> session, nOpen |-> nOpen,
     nClose |-> nClose, response |-> response]

InitHealth ==
    /\ call = NewCall("idle", <<>>)
    /\ twin = HealthRoute("idle", 0, "none", 0, 0, NoHealthResponse)
    /\ store = <<>>

\* except Exception as e: return JSONResponse(status_code=503, ...)
HealthExcept(h) == [h EXCEPT !.pc = "idle", !.response = Unhealthy]

\* a GET /health arrives
HealthRequest ==
    /\ twin.pc = "idle"
    /\ twin.requests < MaxProbes
    /\ twin' = [twin EXCEPT !.pc = "create", !.requests = @ + 1,
                            !.session = "none", !.response = NoHealthResponse]
    /\ UNCHANGED <<call, store>>

\* client = await create_memory_client(...)
HealthCreate ==
    /\ twin.pc = "create"
    /\ \E raised \in BOOLEAN :
          twin' = IF raised THEN HealthExcept(twin)
                  ELSE [twin EXCEPT !.pc = "probe", !.session = "open",
                                    !.nOpen = @ + 1]
    /\ UNCHANGED <<call, store>>

\* await client.health_check()
HealthProbe ==
    /\ twin.pc = "probe"
    /\ \E raised \in BOOLEAN :
          twin' = IF raised THEN HealthExcept(twin)
                  ELSE [twin EXCEPT !.pc = "close"]
    /\ UNCHANGED <<call, store>>

\* await client.close(), then the healthy response
HealthClose ==
    /\ twin.pc = "close"
    /\ \E raised \in BOOLEAN :
          LET h == [twin EXCEPT !.session = "closed", !.nClose = @ + 1]
          IN  twin' = IF raised THEN HealthExcept(h)
                      ELSE [h EXCEPT !.pc = "idle", !.response = Healthy]
    /\ UNCHANGED <<call, store>>

NextHealth ==
    \/ HealthRequest
    \/ HealthCreate
    \/ HealthProbe
    \/ HealthClose

SpecHealth == InitHealth /\ [][NextHealth]_vars

\* C28: when the liveness route has returned its healthy or degraded
\* response, the session it opened for the probe has been closed, so every
\* session the route opened has had its close call.
C28_HealthSessionClosed ==
    (twin.pc = "idle" /\ twin.response # NoHealthResponse)
    => /\ twin.session # "open"
       /\ twin.nClose = twin.nOpen

====
